---- MODULE Spec2Model ----
(***************************************************************************)
(* A model of insert_citekey_to_note_bib.py: the splitter                  *)
(* (get_BibTex_file_contents), the record codec                            *)
(* (convert_str_to_BibTexEntry, format_BibTexEntry_to_str), the insertion  *)
(* transform (insert_citekey) and the run of main over a file system.      *)
(*                                                                         *)
(* A Python str is a sequence of one-character strings; a dict is the      *)
(* sequence of its <<key, value>> items in insertion order.                *)
(***************************************************************************)
EXTENDS Integers, Sequences, FiniteSets, TLC

VARIABLES
    \* ---- the codec: a value a codec function is applied to
    src,        \* the record the input was drawn from
    style,      \* "rec": the input is the record; "text": its text in the input grammar
    cur,        \* the current value: a text, a raw chunk, a record or a failure
    prev,       \* the value the last function was applied to
    hist,       \* the functions applied so far, in order
    prefix,     \* insert_citekey's prefix argument
    suffix,     \* insert_citekey's suffix argument
    \* ---- the splitter loop
    slines,     \* the lines of the file being split
    spos,       \* the number of lines consumed
    tmp_lines,  \* the lines collected for the current entry
    scontents,  \* the chunks output so far
    sdone,      \* TRUE once the final chunk is appended
    \* ---- a run of main
    pc,         \* the position in main
    fs0,        \* the file system before the run
    fs,         \* the file system
    args,       \* main's arguments
    contents,   \* read_BibTex_file's chunk list
    entries,    \* the decoded entries, then the entries with the key inserted
    err         \* the error the run ended with, "" for none

codecVars == <<src, style, cur, prev, hist, prefix, suffix>>
splitVars == <<slines, spos, tmp_lines, scontents, sdone>>
mainVars  == <<pc, fs0, fs, args, contents, entries, err>>
vars      == <<codecVars, splitVars, mainVars>>

(***************************************************************************)
(* Bounds of the model.                                                    *)
(***************************************************************************)
MaxFields == 2      \* fields of an input record
MaxOps    == 3      \* codec functions applied in sequence
MaxLines  == 3      \* lines of an input file

(***************************************************************************)
(* Python's str methods, on sequences of characters.                       *)
(***************************************************************************)
AT == "@"
LB == "{"
RB == "}"
CM == ","
EQ == "="
QT == "\""
PC == "%"
SP == " "
NL == "\n"

\* the characters str.strip() with no argument removes
Whitespace == {" ", "\n", "\t"}

Min(S) == CHOOSE x \in S : \A y \in S : x <= y

startswith(s, p) == Len(s) >= Len(p) /\ SubSeq(s, 1, Len(p)) = p

endswith(s, p) == Len(s) >= Len(p) /\ SubSeq(s, Len(s) - Len(p) + 1, Len(s)) = p

contains(s, c) == \E i \in 1..Len(s) : s[i] = c

Chars(s) == {s[i] : i \in 1..Len(s)}

\* str.lstrip(chars): drops every leading character that is in chars
RECURSIVE lstrip(_, _)
lstrip(s, chars) ==
    IF s # <<>> /\ Head(s) \in chars THEN lstrip(Tail(s), chars) ELSE s

\* str.rstrip(chars): drops every trailing character that is in chars
RECURSIVE rstrip(_, _)
rstrip(s, chars) ==
    IF s # <<>> /\ s[Len(s)] \in chars
    THEN rstrip(SubSeq(s, 1, Len(s) - 1), chars)
    ELSE s

strip(s, chars) == rstrip(lstrip(s, chars), chars)

\* str.find(sep) + 1: the first position sep occurs at, 0 for none
find(s, sep) ==
    LET I == {i \in 1..(Len(s) - Len(sep) + 1) : SubSeq(s, i, i + Len(sep) - 1) = sep}
    IN  IF I = {} THEN 0 ELSE Min(I)

\* str.split(sep) for a non-empty sep
RECURSIVE split(_, _)
split(s, sep) ==
    LET i == find(s, sep)
    IN  IF i = 0
        THEN <<s>>
        ELSE <<SubSeq(s, 1, i - 1)>> \o split(SubSeq(s, i + Len(sep), Len(s)), sep)

\* sep.join(parts)
RECURSIVE join(_, _)
join(parts, sep) ==
    IF parts = <<>> THEN <<>>
    ELSE IF Len(parts) = 1 THEN parts[1]
    ELSE parts[1] \o sep \o join(Tail(parts), sep)

(***************************************************************************)
(* dict: the items in insertion order.                                     *)
(***************************************************************************)
dict_has(data, k) == \E i \in 1..Len(data) : data[i][1] = k

dict_get(data, k) == data[CHOOSE i \in 1..Len(data) : data[i][1] = k][2]

\* data[k] = v: an existing key keeps its place, a new key goes last
dict_set(data, k, v) ==
    IF dict_has(data, k)
    THEN [i \in 1..Len(data) |-> IF data[i][1] = k THEN <<k, v>> ELSE data[i]]
    ELSE Append(data, <<k, v>>)

(***************************************************************************)
(* BibTexEntry, and the outcome of a decode.                               *)
(***************************************************************************)
BibTexEntry(citekey, entry_type, data) ==
    [citekey |-> citekey, entry_type |-> entry_type, data |-> data]

NoEntry == BibTexEntry(<<>>, <<>>, <<>>)

Raised(e) == [ok |-> FALSE, error |-> e, entry |-> NoEntry]

Returned(entry) == [ok |-> TRUE, error |-> "", entry |-> entry]

(***************************************************************************)
(* convert_str_to_BibTexEntry                                              *)
(***************************************************************************)
\* The body of the loop over meta_data, for element i (from 0) of n:
\* st holds the loop's `field` and `data`.
decode_element(st, element, i, n) ==
    IF i = 0
    THEN [st EXCEPT !.field = strip(element, Whitespace)]
    ELSE IF i = n - 1
    THEN [st EXCEPT !.data = dict_set(st.data, st.field, rstrip(element, Whitespace))]
    ELSE LET parts == split(strip(element, Whitespace), <<CM>>)
             prev_field_value == join(SubSeq(parts, 1, Len(parts) - 1), <<CM>>)
         IN  [field |-> parts[Len(parts)],
              data  |-> dict_set(st.data, st.field, prev_field_value)]

RECURSIVE decode_loop(_, _, _)
decode_loop(st, meta_data, i) ==
    IF i >= Len(meta_data)
    THEN st
    ELSE decode_loop(decode_element(st, meta_data[i + 1], i, Len(meta_data)),
                     meta_data, i + 1)

\* entry[1:].split('{')[0]
entry_type_of(entry) == split(Tail(entry), <<LB>>)[1]

\* entry[1:].split(entry_type)[1]: the text between the first and the second
\* occurrence of entry_type
entry_wo_entry_type_of(entry) == split(Tail(entry), entry_type_of(entry))[2]

\* entry_wo_entry_type[1:-1]
inner(entry_wo_entry_type) == SubSeq(entry_wo_entry_type, 2, Len(entry_wo_entry_type) - 1)

\* entry_wo_entry_type[1:-1].lstrip(citekey).lstrip(',').split('=')
meta_data_of(body, citekey) ==
    split(lstrip(lstrip(body, Chars(citekey)), {CM}), <<EQ>>)

convert_str_to_BibTexEntry(entry) ==
    IF ~startswith(entry, <<AT>>) THEN Raised("AssertionError")
    ELSE IF ~contains(entry, LB) THEN Raised("AssertionError")
    ELSE IF entry_type_of(entry) = <<>> THEN Raised("ValueError")   \* split(''): empty separator
    ELSE LET entry_type          == entry_type_of(entry)
             entry_wo_entry_type == entry_wo_entry_type_of(entry)
         IN  IF ~startswith(entry_wo_entry_type, <<LB>>) THEN Raised("AssertionError")
             ELSE IF ~endswith(entry_wo_entry_type, <<RB>>) THEN Raised("AssertionError")
             ELSE LET body      == inner(entry_wo_entry_type)
                      citekey   == split(body, <<CM>>)[1]
                      meta_data == meta_data_of(body, citekey)
                      st        == decode_loop([field |-> <<>>, data |-> <<>>], meta_data, 0)
                  IN  Returned(BibTexEntry(citekey, entry_type, st.data))

(***************************************************************************)
(* insert_citekey                                                          *)
(***************************************************************************)
insert_field == <<"n", "o", "t", "e">>

\* entry.data[insert_field].strip('"')
existing_note_of(entry) == strip(dict_get(entry.data, insert_field), {QT})

\* insert_citekey with the suffix left out of the annotation
insert_citekey_without_suffix(entry, pre, suf) ==
    IF ~dict_has(entry.data, insert_field)
    THEN [entry EXCEPT !.data =
            dict_set(entry.data, insert_field, <<QT>> \o pre \o entry.citekey \o <<QT>>)]
    ELSE LET new_note == <<QT>> \o existing_note_of(entry)
                         \o (<<NL>> \o pre \o entry.citekey) \o <<QT>>
         IN  [entry EXCEPT !.data = dict_set(entry.data, insert_field, new_note)]

insert_citekey(entry, pre, suf) ==
    IF ~dict_has(entry.data, insert_field)
    THEN [entry EXCEPT !.data =
            dict_set(entry.data, insert_field, <<QT>> \o pre \o entry.citekey \o suf \o <<QT>>)]
    ELSE LET new_note == <<QT>> \o existing_note_of(entry)
                         \o (<<NL>> \o pre \o entry.citekey \o suf) \o <<QT>>
         IN  [entry EXCEPT !.data = dict_set(entry.data, insert_field, new_note)]

(***************************************************************************)
(* format_BibTexEntry_to_str                                               *)
(***************************************************************************)
\* field + ' = ' + value + ','
data_line(item) == item[1] \o <<SP, EQ, SP>> \o item[2] \o <<CM>>

format_BibTexEntry_to_str(entry) ==
    LET data_str == join([i \in 1..Len(entry.data) |-> data_line(entry.data[i])], <<NL>>)
    IN  <<AT>> \o entry.entry_type \o <<LB>> \o entry.citekey
        \o <<CM, NL>> \o data_str \o <<NL, RB>>

(***************************************************************************)
(* get_BibTex_file_contents                                                *)
(***************************************************************************)
\* The body of the loop over the lines of the file: st holds `contents` and
\* `tmp_lines`, l is the line read.
\* split_line with the "%" lines kept as lines of the entry
split_line_keeping_comments(st, l) ==
    LET line == strip(l, Whitespace)
    IN  IF line = <<>> THEN st
        ELSE IF startswith(line, <<AT>>)
        THEN [contents  |-> IF Len(st.tmp_lines) > 0
                            THEN Append(st.contents, join(st.tmp_lines, <<>>))
                            ELSE st.contents,
              tmp_lines |-> <<line>>]
        ELSE [st EXCEPT !.tmp_lines = Append(st.tmp_lines, line)]

split_line(st, l) ==
    LET line == strip(l, Whitespace)
    IN  IF startswith(line, <<PC>>) THEN st
        ELSE IF line = <<>> THEN st
        ELSE IF startswith(line, <<AT>>)
        THEN [contents  |-> IF Len(st.tmp_lines) > 0
                            THEN Append(st.contents, join(st.tmp_lines, <<>>))
                            ELSE st.contents,
              tmp_lines |-> <<line>>]
        ELSE [st EXCEPT !.tmp_lines = Append(st.tmp_lines, line)]

\* The append after the loop made only when lines were collected
split_flush_if_collected(st) ==
    IF Len(st.tmp_lines) > 0
    THEN Append(st.contents, join(st.tmp_lines, <<>>))
    ELSE st.contents

\* After the loop: contents.append(''.join(tmp_lines))
split_flush(st) == Append(st.contents, join(st.tmp_lines, <<>>))

RECURSIVE split_loop(_, _)
split_loop(st, lines) ==
    IF lines = <<>> THEN st ELSE split_loop(split_line(st, Head(lines)), Tail(lines))

\* The function on the lines the open file yields
get_BibTex_file_contents(lines) ==
    split_flush(split_loop([contents |-> <<>>, tmp_lines |-> <<>>], lines))

\* `for l in f`: the lines of a text, each with its line break
RECURSIVE file_lines(_)
file_lines(text) ==
    LET i == find(text, <<NL>>)
    IN  IF text = <<>> THEN <<>>
        ELSE IF i = 0 THEN <<text>>
        ELSE <<SubSeq(text, 1, i)>> \o file_lines(SubSeq(text, i + 1, Len(text)))

(***************************************************************************)
(* Variables of the parts a specification leaves alone.                    *)
(***************************************************************************)
NoFile == [exists |-> FALSE, text |-> <<>>]

File(text) == [exists |-> TRUE, text |-> text]

NoValue == [kind |-> "none", text |-> <<>>, entry |-> NoEntry, error |-> ""]

CodecIdle ==
    /\ src = NoEntry /\ style = "none" /\ cur = NoValue /\ prev = NoValue
    /\ hist = <<>> /\ prefix = <<>> /\ suffix = <<>>

SplitIdle ==
    /\ slines = <<>> /\ spos = 0 /\ tmp_lines = <<>> /\ scontents = <<>>
    /\ sdone = FALSE

MainIdle ==
    /\ pc = "idle" /\ fs0 = <<>> /\ fs = <<>> /\ args = <<>>
    /\ contents = <<>> /\ entries = <<>> /\ err = ""

(***************************************************************************)
(* The codec's functions applied to bounded inputs.                        *)
(***************************************************************************)
TextValue(text)  == [kind |-> "text",  text |-> text, entry |-> NoEntry, error |-> ""]
ChunkValue(text) == [kind |-> "chunk", text |-> text, entry |-> NoEntry, error |-> ""]
EntryValue(e)    == [kind |-> "rec",   text |-> <<>>, entry |-> e,       error |-> ""]
FailValue(e)     == [kind |-> "fail",  text |-> <<>>, entry |-> NoEntry, error |-> e]

\* Entry types and keys of the input records; the type "a" occurs in the key "ka"
TypeKeys == { << <<"a">>, <<"k">> >>, << <<"a">>, <<"k", "a">> >>, << <<"b", "c">>, <<"k">> >> }

Names == { <<"f">>, <<"g">>, insert_field }

\* Field values: bare, quoted, quoted with quotes inside the delimiters, and
\* quoted with a comma; none holds "=" or a brace
Values == { <<"v">>, <<QT, "x", QT>>, <<QT, QT, "x", QT, QT>>, <<QT, "x", CM, "y", QT>> }

Items == { <<n, v>> : n \in Names, v \in Values }

FieldMaps ==
    UNION { { d \in [1..n -> Items] : \A i, j \in 1..n : d[i][1] = d[j][1] => i = j }
            : n \in 0..MaxFields }

InputRecords == { BibTexEntry(tk[2], tk[1], d) : tk \in TypeKeys, d \in FieldMaps }

\* Prefix and suffix pairs, with and without a quote at the outer end
Affixes == { << <<>>, <<>> >>, << <<"P", "-">>, <<"-", "S">> >>,
             << <<QT>>, <<>> >>, << <<>>, <<QT>> >> }

\* The text of a record in the input grammar: the header line, one
\* "field = value" line per field, separated by commas, and the closing line
input_text(e) ==
    LET n == Len(e.data)
        field_line(i) == e.data[i][1] \o <<SP, EQ, SP>> \o e.data[i][2]
                         \o (IF i < n THEN <<CM>> ELSE <<>>)
    IN  <<AT>> \o e.entry_type \o <<LB>> \o e.citekey \o <<CM, NL>>
        \o join([i \in 1..n |-> field_line(i) \o <<NL>>], <<>>)
        \o <<RB, NL>>

CInit ==
    /\ src \in InputRecords
    /\ style \in {"rec", "text"}
    /\ cur = IF style = "rec" THEN EntryValue(src) ELSE TextValue(input_text(src))
    /\ prev = NoValue
    /\ hist = <<>>
    /\ \E a \in Affixes : prefix = a[1] /\ suffix = a[2]
    /\ SplitIdle /\ MainIdle

Applied(op, value) ==
    /\ Len(hist) < MaxOps
    /\ hist' = Append(hist, op)
    /\ prev' = cur
    /\ cur' = value
    /\ UNCHANGED <<src, style, prefix, suffix, splitVars, mainVars>>

\* The splitter on a text that holds one record
CChunk ==
    /\ cur.kind = "text"
    /\ LET chunks == get_BibTex_file_contents(file_lines(cur.text))
       IN  /\ Len(chunks) = 1
           /\ Applied("chunk", ChunkValue(chunks[1]))

CDecode ==
    /\ cur.kind \in {"text", "chunk"}
    /\ LET r == convert_str_to_BibTexEntry(cur.text)
       IN  Applied("decode", IF r.ok THEN EntryValue(r.entry) ELSE FailValue(r.error))

CEncode ==
    /\ cur.kind = "rec"
    /\ Applied("encode", TextValue(format_BibTexEntry_to_str(cur.entry)))

CInsert ==
    /\ cur.kind = "rec"
    /\ Applied("insert", EntryValue(insert_citekey(cur.entry, prefix, suffix)))

CNext == CChunk \/ CDecode \/ CEncode \/ CInsert

SpecCodec == CInit /\ [][CNext]_vars

(***************************************************************************)
(* The splitter's loop over the lines of a bounded file.                   *)
(***************************************************************************)
\* Lines of the split files, as written (each is read with its line break)
SplitPool ==
    { <<AT, "a", LB, "k", CM>>,          \* @a{k,
      <<SP, "f", SP, EQ, SP, "v">>,      \*  f = v
      <<RB>>,                            \* }
      <<AT, "b", LB, "j", RB>>,          \* @b{j}
      <<PC, SP, "c">>,                   \* % c
      <<SP, PC, AT, "b", LB>>,           \*  %@b{
      <<>>,                              \* an empty line
      <<SP, SP>> }                       \* a line of spaces

LineSeqs(pool) == UNION { [1..n -> pool] : n \in 0..MaxLines }

SInit ==
    /\ \E ls \in LineSeqs(SplitPool) : slines = [i \in 1..Len(ls) |-> ls[i] \o <<NL>>]
    /\ spos = 0
    /\ tmp_lines = <<>>
    /\ scontents = <<>>
    /\ sdone = FALSE
    /\ CodecIdle /\ MainIdle

\* One iteration of `for l in f`
SLine ==
    /\ ~sdone
    /\ spos < Len(slines)
    /\ LET st == split_line([contents |-> scontents, tmp_lines |-> tmp_lines],
                            slines[spos + 1])
       IN  /\ scontents' = st.contents
           /\ tmp_lines' = st.tmp_lines
    /\ spos' = spos + 1
    /\ UNCHANGED <<slines, sdone, codecVars, mainVars>>

\* The append after the loop, and the return
SFlush ==
    /\ ~sdone
    /\ spos = Len(slines)
    /\ scontents' = split_flush([contents |-> scontents, tmp_lines |-> tmp_lines])
    /\ sdone' = TRUE
    /\ UNCHANGED <<slines, spos, tmp_lines, codecVars, mainVars>>

SNext == SLine \/ SFlush

SpecSplit == SInit /\ [][SNext]_vars

(***************************************************************************)
(* main, step by step, over a file system of two paths.                    *)
(***************************************************************************)
Paths == {"in.bib", "out.bib"}

\* Lines of the input files
MainPool ==
    { <<AT, "a", LB, "k", CM, "f", SP, EQ, SP, "v", RB>>,   \* @a{k,f = v}
      <<AT, "b", LB, "k", CM>>,                             \* @b{k,
      <<"g", SP, EQ, SP, "w", RB>>,                         \* g = w}
      <<AT, "b", LB, "j", CM, "g", SP, EQ, SP, "w", RB>>,   \* @b{j,g = w}
      <<PC, SP, "c">>,                                      \* % c
      <<AT, "a", LB, "m", RB, "a", LB>>,                    \* @a{m}a{
      <<AT, LB, "k", RB>>,                                  \* @{k}
      <<AT, "a">> }                                         \* @a

InputTexts == { join([i \in 1..Len(ls) |-> ls[i] \o <<NL>>], <<>>) : ls \in LineSeqs(MainPool) }

\* The content of a file that is not a BibTex file
OldText == <<"o", "l", "d", NL>>

MainAffixes == { << <<>>, <<>> >>, << <<"P", "-">>, <<"-", "S">> >> }

\* str(n)
RECURSIVE decimal(_)
decimal(n) ==
    LET digit == <<"0", "1", "2", "3", "4", "5", "6", "7", "8", "9">>
    IN  IF n < 10 THEN <<digit[n + 1]>> ELSE decimal(n \div 10) \o <<digit[(n % 10) + 1]>>

\* os.path.isfile(path)
isfile(files, path) == path \in Paths /\ files[path].exists

\* main's check with os.path.isdir in place of os.path.isfile: no path of
\* the model is a directory
output_is_dir(files, path) == FALSE

\* main's check: os.path.isfile(output_file_path)
output_exists(files, path) == isfile(files, path)

\* The assertion with >= in place of ==
citekeys_at_most_entries(es) == Len(es) >= Cardinality({es[i].citekey : i \in 1..Len(es)})

\* len(entries) == len({entry.citekey for entry in entries})
citekeys_unique(es) == Len(es) = Cardinality({es[i].citekey : i \in 1..Len(es)})

insert_citekey_to_note(bibtex_entries, pre, suf) ==
    [i \in 1..Len(bibtex_entries) |-> insert_citekey(bibtex_entries[i], pre, suf)]

\* out_lines built from the entries after the first
out_lines_after_first(bibtex_entries) ==
    [i \in 1..(Len(bibtex_entries) - 1) |-> format_BibTexEntry_to_str(bibtex_entries[i + 1])]

\* save_as_BibTex_file's out_lines
out_lines_of(bibtex_entries) ==
    [i \in 1..Len(bibtex_entries) |-> format_BibTexEntry_to_str(bibtex_entries[i])]

\* print(f'% itemnum: {len(out_lines)}', file=f)
header_line(out_lines) ==
    <<PC, SP, "i", "t", "e", "m", "n", "u", "m", ":", SP>> \o decimal(Len(out_lines)) \o <<NL>>

\* print('\n'.join(out_lines), file=f)
body_lines(out_lines) == join(out_lines, <<NL>>) \o <<NL>>

Init ==
    /\ pc = "start"
    /\ \E t \in InputTexts, o \in {NoFile, File(OldText)} :
          fs0 = [p \in Paths |-> IF p = "in.bib" THEN File(t) ELSE o]
    /\ fs = fs0
    /\ \E i \in Paths, o \in Paths \cup {""}, a \in MainAffixes :
          args = [input_file_path |-> i, output_file_path |-> o,
                  prefix |-> a[1], suffix |-> a[2]]
    /\ contents = <<>>
    /\ entries = <<>>
    /\ err = ""
    /\ CodecIdle /\ SplitIdle

Raise(e) ==
    /\ pc' = "error"
    /\ err' = e

\* main's checks of output_file_path
MCheckOutput ==
    /\ pc = "start"
    /\ IF args.output_file_path = ""
       THEN Raise("ValueError: output_file_path")
       ELSE IF output_exists(fs, args.output_file_path)
       THEN Raise("FileExistsError")
       ELSE pc' = "read" /\ err' = err
    /\ UNCHANGED <<fs0, fs, args, contents, entries, codecVars, splitVars>>

\* read_BibTex_file: get_BibTex_file_contents(file_path)
MRead ==
    /\ pc = "read"
    /\ IF ~isfile(fs, args.input_file_path)
       THEN Raise("FileNotFoundError") /\ contents' = contents
       ELSE /\ contents' = get_BibTex_file_contents(file_lines(fs[args.input_file_path].text))
            /\ pc' = "decode" /\ err' = err
    /\ UNCHANGED <<fs0, fs, args, entries, codecVars, splitVars>>

\* read_BibTex_file: one iteration of the loop over contents
MDecode ==
    /\ pc = "decode"
    /\ Len(entries) < Len(contents)
    /\ LET r == convert_str_to_BibTexEntry(contents[Len(entries) + 1])
       IN  IF r.ok
           THEN entries' = Append(entries, r.entry) /\ pc' = pc /\ err' = err
           ELSE Raise(r.error \o ": decode") /\ entries' = entries
    /\ UNCHANGED <<fs0, fs, args, contents, codecVars, splitVars>>

\* read_BibTex_file: the assertion on the citekeys after the loop, and the return
MUnique ==
    /\ pc = "decode"
    /\ Len(entries) = Len(contents)
    /\ IF citekeys_unique(entries)
       THEN pc' = "insert" /\ err' = err
       ELSE Raise("AssertionError: citekey")
    /\ UNCHANGED <<fs0, fs, args, contents, entries, codecVars, splitVars>>

MInsert ==
    /\ pc = "insert"
    /\ entries' = insert_citekey_to_note(entries, args.prefix, args.suffix)
    /\ pc' = "save"
    /\ UNCHANGED <<fs0, fs, args, contents, err, codecVars, splitVars>>

\* save_as_BibTex_file: open(output_file_path, 'w') creates or empties the file
MOpen ==
    /\ pc = "save"
    /\ fs' = [fs EXCEPT ![args.output_file_path] = File(<<>>)]
    /\ pc' = "header"
    /\ UNCHANGED <<fs0, args, contents, entries, err, codecVars, splitVars>>

MPrintHeader ==
    /\ pc = "header"
    /\ fs' = [fs EXCEPT ![args.output_file_path] =
                File(@.text \o header_line(out_lines_of(entries)))]
    /\ pc' = "body"
    /\ UNCHANGED <<fs0, args, contents, entries, err, codecVars, splitVars>>

MPrintBody ==
    /\ pc = "body"
    /\ fs' = [fs EXCEPT ![args.output_file_path] =
                File(@.text \o body_lines(out_lines_of(entries)))]
    /\ pc' = "done"
    /\ UNCHANGED <<fs0, args, contents, entries, err, codecVars, splitVars>>

Next ==
    \/ MCheckOutput \/ MRead \/ MDecode \/ MUnique
    \/ MInsert \/ MOpen \/ MPrintHeader \/ MPrintBody

Spec == Init /\ [][Next]_vars

(***************************************************************************)
(* Claims about the codec, under SpecCodec.                                *)
(***************************************************************************)
NoWS(s) == SelectSeq(s, LAMBDA c : c \notin Whitespace)

\* Same key, type, field names in the same order and field values, up to whitespace
SameRecord(e, r) ==
    /\ NoWS(e.citekey) = NoWS(r.citekey)
    /\ NoWS(e.entry_type) = NoWS(r.entry_type)
    /\ Len(e.data) = Len(r.data)
    /\ \A i \in 1..Len(r.data) :
          /\ NoWS(e.data[i][1]) = NoWS(r.data[i][1])
          /\ NoWS(e.data[i][2]) = NoWS(r.data[i][2])

\* The text the specification gives for a record: "@<type>{<key>," then one
\* "<field> = <value>," line per field, then "}"
canonical_text(r) ==
    <<AT>> \o r.entry_type \o <<LB>> \o r.citekey \o <<CM, NL>>
    \o join([i \in 1..Len(r.data) |->
                r.data[i][1] \o <<SP, EQ, SP>> \o r.data[i][2] \o <<CM, NL>>], <<>>)
    \o <<RB>>

LastOp == IF hist = <<>> THEN "none" ELSE hist[Len(hist)]

\* prefix + key + suffix for the record r
annotation(r) == prefix \o r.citekey \o suffix

\* v without one leading and without one trailing double quote
strip_one_quote(v) ==
    LET a == IF v # <<>> /\ Head(v) = QT THEN Tail(v) ELSE v
    IN  IF a # <<>> /\ a[Len(a)] = QT THEN SubSeq(a, 1, Len(a) - 1) ELSE a

\* C1: for every well-formed record text T, decoding T's raw chunk succeeds,
\* and the encoding of the decoded record has the type, the key, the field
\* names in order and the field values of T, up to whitespace.
C1_TextRoundTrip ==
    /\ (style = "text" /\ hist = <<"chunk", "decode">>)
          => (cur.kind = "rec" /\ SameRecord(cur.entry, src))
    /\ (style = "text" /\ hist = <<"chunk", "decode", "encode">>)
          => (cur.kind = "text" /\ NoWS(cur.text) = NoWS(canonical_text(src)))

\* C2: for every record r, decoding format_BibTexEntry_to_str(r) yields a
\* record with the same key, type and field mapping (names, order, values up
\* to whitespace), the last field included.
C2_RecordRoundTrip ==
    (style = "rec" /\ hist = <<"encode", "decode">>)
        => (cur.kind = "rec" /\ SameRecord(cur.entry, src))

\* C3: on a record with no 'note' field, insert_citekey appends 'note' with
\* the value '"' + prefix + key + suffix + '"' after the other fields, and
\* leaves the key, the type and the other fields as they were.
C3_InsertCreates ==
    (LastOp = "insert" /\ ~dict_has(prev.entry.data, insert_field))
        => /\ cur.kind = "rec"
           /\ cur.entry.citekey = prev.entry.citekey
           /\ cur.entry.entry_type = prev.entry.entry_type
           /\ cur.entry.data =
                 Append(prev.entry.data,
                        <<insert_field, <<QT>> \o annotation(prev.entry) \o <<QT>> >>)

\* C3's case: a record with another field and no 'note', a non-empty prefix
\* and suffix, after insert_citekey.
C3_Witness ==
    /\ LastOp = "insert"
    /\ ~dict_has(prev.entry.data, insert_field)
    /\ Len(prev.entry.data) >= 1
    /\ prefix # <<>> /\ suffix # <<>>

\* C4: on a record with a 'note' field of value v, insert_citekey sets it to
\* '"' + u + newline + prefix + key + suffix + '"', u being v without exactly
\* one leading and one trailing '"'; 'note' keeps its place and the other
\* fields are unchanged.
C4_InsertAppends ==
    (LastOp = "insert" /\ dict_has(prev.entry.data, insert_field))
        => /\ cur.entry.citekey = prev.entry.citekey
           /\ cur.entry.entry_type = prev.entry.entry_type
           /\ Len(cur.entry.data) = Len(prev.entry.data)
           /\ \A i \in 1..Len(prev.entry.data) :
                 cur.entry.data[i] =
                    IF prev.entry.data[i][1] = insert_field
                    THEN <<insert_field,
                           <<QT>> \o strip_one_quote(prev.entry.data[i][2]) \o <<NL>>
                           \o annotation(prev.entry) \o <<QT>> >>
                    ELSE prev.entry.data[i]

\* C8: on a record without 'note', n calls of insert_citekey in sequence give
\* 'note' the value '"' + n copies of prefix + key + suffix joined by
\* newlines + '"'.
C8_InsertAccumulates ==
    (style = "rec" /\ ~dict_has(src.data, insert_field)
     /\ hist # <<>> /\ \A i \in 1..Len(hist) : hist[i] = "insert")
        => dict_get(cur.entry.data, insert_field) =
              <<QT>> \o join([i \in 1..Len(hist) |-> annotation(src)], <<NL>>) \o <<QT>>

(***************************************************************************)
(* Claims about the run of main, under Spec.                               *)
(***************************************************************************)
\* The input has been read: the splitter returns at least one chunk
InputRead == contents # <<>>

DecodeErrors == {"AssertionError: decode", "ValueError: decode"}

Decodes(chunk) == convert_str_to_BibTexEntry(chunk).ok

\* Two chunks of the input decode to the same key
SharedKey ==
    \E i, j \in 1..Len(contents) :
        /\ i # j
        /\ Decodes(contents[i]) /\ Decodes(contents[j])
        /\ convert_str_to_BibTexEntry(contents[i]).entry.citekey
              = convert_str_to_BibTexEntry(contents[j]).entry.citekey

\* C5: when two records of the input decode to the same key, the run fails
\* with the uniqueness error, raised only once every chunk is decoded (a chunk
\* that fails to decode is reported instead), and creates no file.
C5_DuplicateKeys ==
    (InputRead /\ SharedKey)
        => /\ pc \in {"decode", "error"}
           /\ fs = fs0
           /\ (pc = "error" =>
                 err = IF \A i \in 1..Len(contents) : Decodes(contents[i])
                       THEN "AssertionError: citekey"
                       ELSE convert_str_to_BibTexEntry(contents[Len(entries) + 1]).error
                            \o ": decode")
           /\ (err = "AssertionError: citekey" => Len(entries) = Len(contents))

\* C5's case: a run that ended with the uniqueness error.
C5_Witness ==
    /\ InputRead /\ SharedKey
    /\ pc = "error" /\ err = "AssertionError: citekey"
    /\ Len(entries) >= 2

\* The decode preconditions as the specification states them: the chunk
\* starts with "@", holds "{", has a non-empty type before the first "{", and
\* what follows the type starts with "{" and ends with "}".
meets_preconditions(chunk) ==
    /\ startswith(chunk, <<AT>>)
    /\ contains(chunk, LB)
    /\ LET type == SubSeq(chunk, 2, find(chunk, <<LB>>) - 1)
           rest == SubSeq(chunk, 2 + Len(type), Len(chunk))
       IN  /\ type # <<>>
           /\ startswith(rest, <<LB>>)
           /\ endswith(rest, <<RB>>)

\* C6: when a chunk of the input fails a decode precondition, the run ends
\* with a decode error and no file exists at the output path at any point of
\* the run or after it.
C6_DecodeFailure ==
    (InputRead /\ \E i \in 1..Len(contents) : ~meets_preconditions(contents[i]))
        => /\ pc \in {"decode", "error"}
           /\ (pc = "error" => err \in DecodeErrors)
           /\ ~fs[args.output_file_path].exists

\* C7: the files that existed before the run keep their contents; a run
\* whose output path names an existing file is rejected before the input is
\* read and before any write; a successful run creates exactly one file, at
\* the output path.
C7_ExistingFilesKept ==
    /\ \A p \in Paths : fs0[p].exists => fs[p] = fs0[p]
    /\ (args.output_file_path \in Paths /\ fs0[args.output_file_path].exists)
          => /\ pc \in {"start", "error"}
             /\ (pc = "error" => err = "FileExistsError")
             /\ ~InputRead
             /\ fs = fs0
    /\ pc = "done"
          => {p \in Paths : fs[p].exists /\ ~fs0[p].exists} = {args.output_file_path}
    /\ pc = "error" => fs = fs0

\* C7's case: a run whose output path is its input path, rejected.
C7_Witness ==
    /\ pc = "error" /\ err = "FileExistsError"
    /\ args.output_file_path = args.input_file_path
    /\ fs = fs0

\* The lines of the input that start a record
record_lines(text) ==
    SelectSeq(file_lines(text), LAMBDA l : startswith(strip(l, Whitespace), <<AT>>))

\* C9: a successful run on an input of N records writes "% itemnum: N" and
\* then the encodings of those N records with the key inserted, in the order
\* of the input, one newline between them (and one after the last).
C9_OutputFile ==
    pc = "done"
        => LET text   == fs0[args.input_file_path].text
               chunks == get_BibTex_file_contents(file_lines(text))
               N      == Len(record_lines(text))
               enc(i) == format_BibTexEntry_to_str(
                            insert_citekey(convert_str_to_BibTexEntry(chunks[i]).entry,
                                           args.prefix, args.suffix))
           IN  /\ Len(chunks) = N
               /\ fs[args.output_file_path].text =
                     <<PC, SP, "i", "t", "e", "m", "n", "u", "m", ":", SP>> \o decimal(N)
                     \o <<NL>> \o join([i \in 1..N |-> enc(i)], <<NL>>) \o <<NL>>

\* C9's case: a successful run on an input of three records.
C9_Witness ==
    /\ pc = "done"
    /\ Len(entries) = 3
    /\ entries[1].citekey # entries[2].citekey

(***************************************************************************)
(* Claims about the splitter, under SpecSplit.                             *)
(***************************************************************************)
\* A line that is empty or starts with "%" once stripped
skipped(l) ==
    LET line == strip(l, Whitespace) IN line = <<>> \/ Head(line) = PC

\* C10: the splitter returns for the lines what it returns for the lines
\* without those that are empty or start with "%" once stripped.
C10_SkippedLines ==
    sdone => scontents = get_BibTex_file_contents(SelectSeq(slines, LAMBDA l : ~skipped(l)))

\* C10's case: a "%" line inside a record, between its first line and a
\* continuation line, in a finished split.
C10_Witness ==
    /\ sdone
    /\ Len(slines) = 3
    /\ startswith(slines[1], <<AT>>)
    /\ skipped(slines[2])
    /\ ~skipped(slines[3]) /\ ~startswith(slines[3], <<AT>>)

\* The lines the splitter keeps, stripped
kept_lines(lines) ==
    LET stripped == [i \in 1..Len(lines) |-> strip(lines[i], Whitespace)]
    IN  SelectSeq(stripped, LAMBDA line : line # <<>> /\ Head(line) # PC)

\* The positions of the lines of K that start with "@", in order
RECURSIVE record_starts(_, _)
record_starts(K, from) ==
    IF from > Len(K) THEN <<>>
    ELSE IF startswith(K[from], <<AT>>)
    THEN <<from>> \o record_starts(K, from + 1)
    ELSE record_starts(K, from + 1)

\* One chunk per "@" line of K: that line and the lines after it up to the
\* next "@" line or the end, concatenated
record_chunks(K) ==
    LET at == record_starts(K, 1)
        last(j) == IF j < Len(at) THEN at[j + 1] - 1 ELSE Len(K)
    IN  [j \in 1..Len(at) |-> join(SubSeq(K, at[j], last(j)), <<>>)]

\* The lines of K before its first "@" line, concatenated
leading_chunk(K) ==
    LET at == record_starts(K, 1)
    IN  join(SubSeq(K, 1, IF at = <<>> THEN Len(K) ELSE at[1] - 1), <<>>)

====
